---- MODULE Spec2Model ----
(***************************************************************************)
(* A model of the two programs of the repository:                          *)
(*                                                                         *)
(*   email_scraper.py  EnhancedEmailSpider (one Scrapy crawl job) and the  *)
(*                     sequential batch scrape_multiple_websites;          *)
(*   linkdin.py        main / process_urls_concurrently /                  *)
(*                     extract_links_from_page (thread-pool batch).        *)
(*                                                                         *)
(* Strings are TLA+ strings and the string functions of the code           *)
(* (startswith, in, split, replace, lower, re.findall, urlparse, urljoin)  *)
(* are computed character by character.                                    *)
(*                                                                         *)
(* The crawl job runs inside Scrapy.  The engine is modelled to the        *)
(* extent the source selects its behaviour: the scheduler's duplicate      *)
(* filter (requests are built without dont_filter), the depth middleware   *)
(* (DEPTH_LIMIT), the offsite middleware (allowed_domains) and the         *)
(* downloader's concurrency limits (the CONCURRENT_REQUESTS settings).     *)
(* The server answers a URL with the page of that URL or with a redirect   *)
(* to another URL, which the engine follows with a new request.  A fetch   *)
(* is one scheduled request taken to its response or failure.              *)
(***************************************************************************)
EXTENDS Integers, Sequences, FiniteSets, Bags, TLC

(***************************************************************************)
(* Strings.                                                                *)
(***************************************************************************)
Ch(s, k) == SubSeq(s, k, k)

From(s, k) == SubSeq(s, k, Len(s))

RECURSIVE Find(_, _, _)
\* str.find: the first index >= i at which sub occurs in s, 0 when none.
Find(sub, s, i) ==
    IF i + Len(sub) - 1 > Len(s) THEN 0
    ELSE IF SubSeq(s, i, i + Len(sub) - 1) = sub THEN i
    ELSE Find(sub, s, i + 1)

\* Python's  sub in s
In(sub, s) == Find(sub, s, 1) # 0

StartsWith(s, prefix) ==
    Len(prefix) <= Len(s) /\ SubSeq(s, 1, Len(prefix)) = prefix

EndsWith(s, suffix) ==
    Len(suffix) <= Len(s) /\ SubSeq(s, Len(s) - Len(suffix) + 1, Len(s)) = suffix

RECURSIVE SplitLast(_, _)
\* s.split(sep)[-1]
SplitLast(s, sep) ==
    LET i == Find(sep, s, 1)
    IN  IF i = 0 THEN s ELSE SplitLast(From(s, i + Len(sep)), sep)

\* s.split(sep)[0]
SplitFirst(s, sep) ==
    LET i == Find(sep, s, 1)
    IN  IF i = 0 THEN s ELSE SubSeq(s, 1, i - 1)

RECURSIVE Replace(_, _, _)
\* s.replace(old, new), old not empty
Replace(s, old, new) ==
    LET i == Find(old, s, 1)
    IN  IF i = 0 THEN s
        ELSE SubSeq(s, 1, i - 1) \o new \o Replace(From(s, i + Len(old)), old, new)

LowerCase == {"a", "b", "c", "d", "e", "f", "g", "h", "i", "j", "k", "l", "m",
              "n", "o", "p", "q", "r", "s", "t", "u", "v", "w", "x", "y", "z"}

UpperCase == {"A", "B", "C", "D", "E", "F", "G", "H", "I", "J", "K", "L", "M",
              "N", "O", "P", "Q", "R", "S", "T", "U", "V", "W", "X", "Y", "Z"}

Digits == {"0", "1", "2", "3", "4", "5", "6", "7", "8", "9"}

Letters == LowerCase \cup UpperCase

UpperSeq == <<"A", "B", "C", "D", "E", "F", "G", "H", "I", "J", "K", "L", "M",
              "N", "O", "P", "Q", "R", "S", "T", "U", "V", "W", "X", "Y", "Z">>

LowerSeq == <<"a", "b", "c", "d", "e", "f", "g", "h", "i", "j", "k", "l", "m",
              "n", "o", "p", "q", "r", "s", "t", "u", "v", "w", "x", "y", "z">>

LowerOf(c) ==
    IF c \in UpperCase
    THEN LowerSeq[CHOOSE k \in 1..Len(UpperSeq) : UpperSeq[k] = c]
    ELSE c

RECURSIVE Lower(_)
\* str.lower
Lower(s) == IF s = "" THEN "" ELSE LowerOf(Ch(s, 1)) \o Lower(From(s, 2))

RECURSIVE RunEnd(_, _, _)
\* The last index of the longest run of characters of class cls that starts
\* at index i of s; i - 1 when s[i] is not in the class.
RunEnd(s, i, cls) ==
    IF i <= Len(s) /\ Ch(s, i) \in cls THEN RunEnd(s, i + 1, cls) ELSE i - 1

Range(q) == {q[k] : k \in 1..Len(q)}

\* Every list that holds each element of the set S once: list(S) in some order.
ListsOf(S) ==
    {q \in [1..Cardinality(S) -> S] : \A a, b \in 1..Cardinality(S) : q[a] = q[b] => a = b}

NoRepeat(q) == \A a, b \in 1..Len(q) : q[a] = q[b] => a = b

RECURSIVE Join(_, _)
\* sep.join(q)
Join(sep, q) ==
    IF Len(q) = 0 THEN ""
    ELSE IF Len(q) = 1 THEN q[1]
    ELSE q[1] \o sep \o Join(sep, Tail(q))

(***************************************************************************)
(* email_scraper.py: extract_emails.                                       *)
(***************************************************************************)
\* The character classes of email_pattern.
LocalChars == Letters \cup Digits \cup {".", "_", "%", "+", "-"}

DomainChars == Letters \cup Digits \cup {".", "-"}

\* The least number of letters of the last label: {2,}
TldMin == 2

\* The match of email_pattern that starts at index i of s, as the index of
\* its last character; 0 when the pattern does not match at i.  Each
\* quantifier is greedy: the local part is the longest run of LocalChars,
\* which an "@" must follow; the domain part gives characters back until
\* a "." with at least TldMin letters behind it ends it.
MatchEnd(s, i) ==
    LET a == RunEnd(s, i, LocalChars) + 1
        e == RunEnd(s, a + 1, DomainChars)
        dots == {p \in (a + 2)..e :
                    /\ Ch(s, p) = "."
                    /\ RunEnd(s, p + 1, Letters) >= p + TldMin}
        last == CHOOSE p \in dots : \A o \in dots : o <= p
    IN  IF a = i \/ a > Len(s) \/ Ch(s, a) # "@" \/ dots = {} THEN 0
        ELSE RunEnd(s, last + 1, Letters)

RECURSIVE re_findall(_, _)
\* re.findall(email_pattern, s) from index i on: the matches from left to
\* right, none overlapping another.
re_findall(s, i) ==
    IF i > Len(s) THEN <<>>
    ELSE LET e == MatchEnd(s, i)
         IN  IF e = 0 THEN re_findall(s, i + 1)
             ELSE <<SubSeq(s, i, e)>> \o re_findall(s, e + 1)

\* list(re.findall(...)) without the set(): every match, repeated ones too.
extract_emails_keeping_repeats(html_content) == {re_findall(html_content, 1)}

\* list(set(re.findall(email_pattern, html_content))): the lists the call
\* can return, one for each order a set can be listed in.
extract_emails(html_content) == ListsOf(Range(re_findall(html_content, 1)))

(***************************************************************************)
(* urllib.parse, for the URLs and anchor targets the model uses: no        *)
(* "." or ".." path segments, no empty path segments, no parameters.       *)
(***************************************************************************)
SchemeChars == Letters \cup Digits \cup {"+", "-", "."}

\* The schemes urljoin resolves a relative reference for (uses_relative),
\* to the ones of the model's inputs.
UsesRelative == {"http", "https", ""}

\* urlsplit(url).scheme: the text before the first ":" when it is a scheme.
Scheme(url) ==
    LET i == Find(":", url, 1)
    IN  IF i > 1 /\ Ch(url, 1) \in Letters /\ RunEnd(url, 1, SchemeChars) = i - 1
        THEN Lower(SubSeq(url, 1, i - 1))
        ELSE ""

\* What urlsplit leaves once the scheme and its ":" are taken off.
AfterScheme(url) ==
    IF Scheme(url) = "" THEN url ELSE From(url, Find(":", url, 1) + 1)

\* The index of the first of "/", "?", "#" at or after index i of s,
\* Len(s) + 1 when there is none.
NetlocEnd(s, i) ==
    LET hits == {k \in i..Len(s) : Ch(s, k) \in {"/", "?", "#"}}
    IN  IF hits = {} THEN Len(s) + 1 ELSE CHOOSE k \in hits : \A o \in hits : k <= o

\* urlparse(url).netloc
Netloc(url) ==
    LET r == AfterScheme(url)
    IN  IF StartsWith(r, "//") THEN SubSeq(r, 3, NetlocEnd(r, 3) - 1) ELSE ""

\* The path, query and fragment of url, as one string.
AfterNetloc(url) ==
    LET r == AfterScheme(url)
    IN  IF StartsWith(r, "//") THEN From(r, NetlocEnd(r, 3)) ELSE r

\* urlparse(url).path
Path(url) ==
    LET r == AfterNetloc(url)
        hits == {k \in 1..Len(r) : Ch(r, k) \in {"?", "#"}}
    IN  IF hits = {} THEN r
        ELSE SubSeq(r, 1, (CHOOSE k \in hits : \A o \in hits : k <= o) - 1)

\* url without its fragment.
DropFragment(url) == SplitFirst(url, "#")

RECURSIVE LastIndex(_, _, _)
\* str.rfind for a one-character sub: the last index <= i, 0 when none.
LastIndex(c, s, i) ==
    IF i < 1 THEN 0 ELSE IF Ch(s, i) = c THEN i ELSE LastIndex(c, s, i - 1)

\* urljoin(base, url)
urljoin(base, url) ==
    LET root == Scheme(base) \o "://" \o Netloc(base)
        bpath == Path(base)
        dir == SubSeq(bpath, 1, LastIndex("/", bpath, Len(bpath)))
    IN  IF base = "" THEN url
        ELSE IF url = "" THEN base
        ELSE IF Scheme(url) # "" /\ (Scheme(url) # Scheme(base) \/ Scheme(url) \notin UsesRelative)
             THEN url
        ELSE IF Scheme(base) \notin UsesRelative THEN url
        ELSE IF Scheme(url) # "" THEN Scheme(url) \o ":" \o AfterScheme(url)
        ELSE IF StartsWith(url, "//") THEN Scheme(base) \o ":" \o url
        ELSE IF StartsWith(url, "#") THEN DropFragment(base) \o url
        ELSE IF StartsWith(url, "?") THEN root \o bpath \o url
        ELSE IF StartsWith(url, "/") THEN root \o url
        ELSE root \o (IF dir = "" THEN "/" ELSE dir) \o url

(***************************************************************************)
(* The state.  Exactly one of the three programs runs in a behaviour:      *)
(* prog names it, and the variables of the other two keep their first      *)
(* values.                                                                 *)
(***************************************************************************)
VARIABLES
    prog,            \* "crawl", "batch" or "links"
    \* -- email_scraper.py, one crawl job (EnhancedEmailSpider in Scrapy)
    site,            \* the web site the job crawls: a name of Sites
    start_urls,      \* spider.start_urls
    allowed_domains, \* spider.allowed_domains
    emails,          \* spider.emails
    visited_pages,   \* spider.visited_pages
    phase,           \* "new", "running", "closed": the engine's life
    queue,           \* the scheduler's pending requests, a bag of
                     \*   [url, depth, dont_filter, retry_times]
    seen,            \* the duplicate filter's set of request URLs
    inflight,        \* the requests being downloaded, a bag of the same
    fetched,         \* history: every download begun, a bag of the same
    yielded,         \* history: the URLs parse yielded a Request for, a bag
    scan,            \* history: the two scans of the latest parse call
    returned,        \* run_scrapy_for_website's own emails, which it returns
    \* -- both batches
    urls,            \* the list of URLs the batch is run on
    pc,              \* where the batch's main thread is
    \* -- email_scraper.py, scrape_multiple_websites
    use_selenium,    \* the fetch strategy
    results,         \* the rows appended so far
    driver,          \* scrape_with_selenium's engine: "none" or "live"
    fetch,           \* scrape_with_selenium's try statement: what it returns
    now,             \* time.time(), in seconds
    start_time,      \* scrape_multiple_websites' start_time
    reactor,         \* the process's Twisted reactor: "fresh" or "stopped"
    outcomes,        \* history: how the job of each row went
    \* -- linkdin.py, main and process_urls_concurrently
    entered,         \* history: main's urls before line 160, as entered
    tasks,           \* the calls of extract_links_from_page the pool was given
    future,          \* the index of the future the loop of line 74 is at
    all_outgoing_links \* the dict of results, as the list of its items

crawlVars == <<site, start_urls, allowed_domains, emails, visited_pages, phase,
               queue, seen, inflight, fetched, yielded, scan, returned>>

mainVars == <<urls, pc>>

batchVars == <<use_selenium, results, driver, fetch, now, start_time, reactor, outcomes>>

linkVars == <<entered, tasks, future, all_outgoing_links>>

vars == <<prog, crawlVars, mainVars, batchVars, linkVars>>

\* What no action of the crawl job changes.
notCrawl == <<prog, mainVars, batchVars, linkVars>>

\* The job as the spider's constructor leaves it.
job == <<site, start_urls, allowed_domains>>

\* The variables of a program that is not the one running.
NoFetch == [emails |-> <<>>, caught |-> FALSE]

IdleCrawl ==
    /\ site = "none"
    /\ start_urls = <<>>
    /\ allowed_domains = <<>>
    /\ emails = {}
    /\ visited_pages = {}
    /\ phase = "none"
    /\ queue = EmptyBag
    /\ seen = {}
    /\ inflight = EmptyBag
    /\ fetched = EmptyBag
    /\ yielded = EmptyBag
    /\ scan = [url |-> "", first |-> <<>>, between |-> {}, again |-> FALSE,
               second |-> <<>>]
    /\ returned = {}

IdleMain ==
    /\ urls = <<>>
    /\ pc = "none"

IdleBatch ==
    /\ use_selenium = FALSE
    /\ results = <<>>
    /\ driver = "none"
    /\ fetch = NoFetch
    /\ now = 0
    /\ start_time = 0
    /\ reactor = "fresh"
    /\ outcomes = <<>>

IdleLinks ==
    /\ entered = <<>>
    /\ tasks = <<>>
    /\ future = 0
    /\ all_outgoing_links = <<>>

(***************************************************************************)
(* The web sites the crawl job is run on.  A page is the text that         *)
(* extract_emails is given and the list response.css('a::attr(href)')      *)
(* yields.                                                                 *)
(***************************************************************************)
NoPage == [text |-> "", hrefs |-> <<>>]

\* Two pages link to /c, /contact links back to the seed, /c back to /a;
\* /e is four links away from the seed by /c and /d and two by /a; /g is
\* four links away by every path.
DiamondSite(url) ==
    CASE url = "http://s.io/" ->
            [text |-> "Contact: info@s.io", hrefs |-> <<"/a", "/contact">>]
      [] url = "http://s.io/a" ->
            [text |-> "a@s.io a@s.io", hrefs |-> <<"/c", "/e">>]
      [] url = "http://s.io/contact" ->
            [text |-> "info@s.io and SALES@S.io, info@s.io", hrefs |-> <<"/c", "/">>]
      [] url = "http://s.io/c" ->
            [text |-> "", hrefs |-> <<"/d", "/a">>]
      [] url = "http://s.io/d" ->
            [text |-> "d@s.io", hrefs |-> <<"/e", "/g">>]
      [] url = "http://s.io/e" ->
            [text |-> "e@s.io", hrefs |-> <<"/d">>]
      [] url = "http://s.io/g" ->
            [text |-> "g@s.io", hrefs |-> <<>>]
      [] OTHER -> NoPage

\* A seed page whose links leave the seed's host in every way an href can.
ScopeSite(url) ==
    CASE url = "http://s.io/" ->
            [text |-> "",
             hrefs |-> <<"http://x.io/?s.io", "http://m.s.io/", "http://t.io/",
                         "//x.io/s.io", "http://nots.io/", "p.html",
                         "mailto:a@s.io", "/about">>]
      [] url = "http://m.s.io/" ->
            [text |-> "m@m.s.io", hrefs |-> <<"/", "http://s.io/", "/about">>]
      [] url = "http://s.io/about" ->
            [text |-> "about@s.io", hrefs |-> <<"http://m.s.io/">>]
      [] OTHER -> NoPage

\* A site that has moved to https: the server redirects the seed, and the
\* pages still link to the old URL of the seed.
MovedSite(url) ==
    CASE url = "https://s.io/" ->
            [text |-> "info@s.io", hrefs |-> <<"http://s.io/", "/a">>]
      [] url = "https://s.io/a" ->
            [text |-> "a@s.io", hrefs |-> <<"/">>]
      [] OTHER -> NoPage

\* A seed page with more links to its own host than a downloader slot takes
\* at once, and a link to a second host of the seed's domain.
WideSite(url) ==
    CASE url = "http://s.io/" ->
            [text |-> "",
             hrefs |-> <<"/p1", "/p2", "/p3", "/p4", "/p5", "/p6", "http://m.s.io/q">>]
      [] url = "http://m.s.io/q" ->
            [text |-> "q@m.s.io", hrefs |-> <<>>]
      [] OTHER -> NoPage

\* A site one of whose pages is served by a host that times out now and
\* then; the other pages link to it.
UnsteadySite(url) ==
    CASE url = "http://s.io/" ->
            [text |-> "info@s.io", hrefs |-> <<"/a", "/b">>]
      [] url = "http://s.io/a" ->
            [text |-> "a@s.io", hrefs |-> <<"/b">>]
      [] url = "http://s.io/b" ->
            [text |-> "b@s.io", hrefs |-> <<>>]
      [] OTHER -> NoPage

Sites == {"diamond", "scope", "moved", "wide", "unsteady"}

Page(name, url) ==
    CASE name = "diamond" -> DiamondSite(url)
      [] name = "scope" -> ScopeSite(url)
      [] name = "moved" -> MovedSite(url)
      [] name = "wide" -> WideSite(url)
      [] name = "unsteady" -> UnsteadySite(url)

\* The URL the server redirects a request for url to, "" when it answers
\* with the page.
Location(name, url) ==
    IF name = "moved" /\ url = "http://s.io/" THEN "https://s.io/" ELSE ""

\* Whether a download of url can end in a timeout or a lost connection.
TimesOut(name, url) == name = "unsteady" /\ url = "http://s.io/b"

\* The seed URLs a job is started with.
Seeds == {"http://s.io/"}

(***************************************************************************)
(* email_scraper.py: EnhancedEmailSpider.                                  *)
(***************************************************************************)
CONCURRENT_REQUESTS == 10

CONCURRENT_REQUESTS_PER_DOMAIN == 5

DEPTH_LIMIT == 3

\* custom_settings leaves Scrapy's RetryMiddleware as it is by default:
\* RETRY_ENABLED True, RETRY_TIMES 2.
RETRY_TIMES == 2

\* __init__: the spider's scoped domain
domain_of_start_url(start_url) == SplitFirst(SplitLast(start_url, "//"), "/")

Keywords == <<"contact", "about", "write-for-us", "support">>

\* parse, line 62: any(keyword in response.url.lower() for keyword in [...])
has_keyword(url) == \E k \in 1..Len(Keywords) : In(Keywords[k], Lower(url))

\* parse, lines 56-57: a link that starts with "/" is joined to the page URL
absolute_link(response_url, link) ==
    IF StartsWith(link, "/") THEN urljoin(response_url, link) ELSE link

\* parse, line 58: the test a link passes to have a Request yielded for it
follows(link, domains, visited) ==
    /\ StartsWith(link, "http")
    /\ In(domains[1], link)
    /\ link \notin visited

RECURSIVE parse_requests(_, _, _, _)
\* parse, lines 55-59: the URLs of the Requests yielded for hrefs, in order
parse_requests(response_url, hrefs, domains, visited) ==
    IF hrefs = <<>> THEN <<>>
    ELSE LET link == absolute_link(response_url, Head(hrefs))
             rest == parse_requests(response_url, Tail(hrefs), domains, visited)
         IN  IF follows(link, domains, visited) THEN <<link>> \o rest ELSE rest

(***************************************************************************)
(* Scrapy, as the spider's settings and requests select it.                *)
(***************************************************************************)
\* urlparse(url).hostname
Hostname(url) == Lower(SplitFirst(Netloc(url), ":"))

\* DepthMiddleware with DEPTH_LIMIT: a request found on a page of depth d has
\* depth d + 1 and is dropped when that is more than the limit.
depth_allows_off_by_one(depth) == depth <= DEPTH_LIMIT + 1

depth_allows(depth) == depth <= DEPTH_LIMIT

\* OffsiteMiddleware with allowed_domains: the request's host is an allowed
\* domain or a subdomain of one.
offsite_allows(url, domains) ==
    \E k \in 1..Len(domains) :
        \/ Hostname(url) = Lower(domains[k])
        \/ EndsWith(Hostname(url), "." \o Lower(domains[k]))

\* The duplicate filter's request_seen: whether the request is a duplicate.
request_seen(url, sn) == url \in sn

\* request_seen records a request it had not seen.
record_seen_dropped(url, sn) == sn

record_seen(url, sn) == sn \cup {url}

\* The scheduler's enqueue_request: a request without dont_filter is put to
\* the duplicate filter, dropped when it has been seen and recorded when
\* not; a request with dont_filter is queued without the filter.  The
\* result is the scheduler's [queue, seen].
schedule(request, q, sn) ==
    IF ~request.dont_filter /\ request_seen(request.url, sn)
    THEN [queue |-> q, seen |-> sn]
    ELSE [queue |-> q (+) SetToBag({request}),
          seen |-> IF request.dont_filter THEN sn ELSE record_seen(request.url, sn)]

RECURSIVE enqueue(_, _, _, _)
\* The requests a callback yielded (line 59, dont_filter left False),
\* passed through the spider middlewares and offered to the scheduler one
\* after another.
enqueue(links, depth, q, sn) ==
    IF links = <<>> THEN [queue |-> q, seen |-> sn]
    ELSE LET u == Head(links)
             sched == schedule([url |-> u, depth |-> depth, dont_filter |-> FALSE,
                                retry_times |-> 0], q, sn)
         IN  IF ~depth_allows(depth) \/ ~offsite_allows(u, allowed_domains)
                THEN enqueue(Tail(links), depth, q, sn)
                ELSE enqueue(Tail(links), depth, sched.queue, sched.seen)

\* The downloads of url begun so far.
fetch_count(url) ==
    LET same == {r \in BagToSet(fetched) : r.url = url}
    IN  BagCardinality([r \in same |-> fetched[r]])

\* The downloads in flight to the host of url.
in_slot(url) ==
    LET same == {r \in BagToSet(inflight) : Hostname(r.url) = Hostname(url)}
    IN  BagCardinality([r \in same |-> inflight[r]])

NoScan == [url |-> "", first |-> <<>>, between |-> {}, again |-> FALSE, second |-> <<>>]

InitCrawl ==
    /\ prog = "crawl"
    /\ site \in Sites
    /\ \E start_url \in Seeds :
          /\ start_urls = <<start_url>>
          /\ allowed_domains = <<domain_of_start_url(start_url)>>
    /\ emails = {}
    /\ visited_pages = {}
    /\ phase = "new"
    /\ queue = EmptyBag
    /\ seen = {}
    /\ inflight = EmptyBag
    /\ fetched = EmptyBag
    /\ yielded = EmptyBag
    /\ scan = NoScan
    /\ returned = {}
    /\ IdleMain /\ IdleBatch /\ IdleLinks

\* Spider.start_requests: the seed is scheduled with dont_filter=True, so
\* the duplicate filter neither tests nor records it.
start_requests ==
    /\ prog = "crawl"
    /\ phase = "new"
    /\ phase' = "running"
    /\ LET sched == schedule([url |-> start_urls[1], depth |-> 0, dont_filter |-> TRUE,
                               retry_times |-> 0], queue, seen)
       IN  /\ queue' = sched.queue
           /\ seen' = sched.seen
    /\ UNCHANGED <<notCrawl, job, returned, emails, visited_pages, inflight, fetched, yielded, scan>>

\* The engine hands a pending request to the downloader when the slot of
\* its host and the downloader as a whole have room.
download(r) ==
    /\ prog = "crawl"
    /\ phase = "running"
    /\ BagIn(r, queue)
    /\ in_slot(r.url) < CONCURRENT_REQUESTS_PER_DOMAIN
    /\ BagCardinality(inflight) < CONCURRENT_REQUESTS
    /\ queue' = queue (-) SetToBag({r})
    /\ inflight' = inflight (+) SetToBag({r})
    /\ fetched' = fetched (+) SetToBag({r})
    /\ UNCHANGED <<notCrawl, job, returned, emails, visited_pages, phase, seen, yielded, scan>>

\* A download fails for good (an error status such as 404, or a failure
\* RetryMiddleware has given up on): the request has no errback, the
\* failure is logged and the request is gone.
download_error(r) ==
    /\ prog = "crawl"
    /\ BagIn(r, inflight)
    /\ inflight' = inflight (-) SetToBag({r})
    /\ UNCHANGED <<notCrawl, job, returned, emails, visited_pages, phase, queue, seen, fetched, yielded, scan>>

\* A download ends in a timeout or a lost connection and the request has
\* been retried less than RETRY_TIMES times: RetryMiddleware makes a copy
\* of the request with dont_filter=True and the engine schedules it.
retry(r) ==
    /\ prog = "crawl"
    /\ BagIn(r, inflight)
    /\ TimesOut(site, r.url)
    /\ r.retry_times < RETRY_TIMES
    /\ inflight' = inflight (-) SetToBag({r})
    /\ LET sched == schedule([url |-> r.url, depth |-> r.depth, dont_filter |-> TRUE,
                               retry_times |-> r.retry_times + 1], queue, seen)
       IN  /\ queue' = sched.queue
           /\ seen' = sched.seen
    /\ UNCHANGED <<notCrawl, job, returned, emails, visited_pages, phase, fetched, yielded, scan>>

\* The server answers a download with a redirect: RedirectMiddleware makes
\* a request for the new URL, with the depth and the dont_filter of the
\* request it replaces, and the engine schedules it; parse is not called.
redirected(r) ==
    /\ prog = "crawl"
    /\ BagIn(r, inflight)
    /\ Location(site, r.url) # ""
    /\ inflight' = inflight (-) SetToBag({r})
    /\ LET sched == schedule([url |-> Location(site, r.url), depth |-> r.depth,
                               dont_filter |-> r.dont_filter,
                               retry_times |-> r.retry_times], queue, seen)
       IN  /\ queue' = sched.queue
           /\ seen' = sched.seen
    /\ UNCHANGED <<notCrawl, job, returned, emails, visited_pages, phase, fetched, yielded, scan>>

\* parse, lines 62-64: the second scan of a page whose URL has a keyword
second_scan_lowered(url, text) == extract_emails(Lower(text))

second_scan(url, text) == extract_emails(text)

\* A download succeeds and the engine calls parse(response); the requests
\* parse yields go through the middlewares to the scheduler.
parse(r) ==
    /\ prog = "crawl"
    /\ BagIn(r, inflight)
    /\ Location(site, r.url) = ""
    /\ inflight' = inflight (-) SetToBag({r})
    /\ LET response == [url |-> r.url] @@ Page(site, r.url)
           visited == visited_pages \cup {response.url}
           again == has_keyword(response.url)
           links == parse_requests(response.url, response.hrefs, allowed_domains, visited)
           sched == enqueue(links, r.depth + 1, queue, seen)
       IN  /\ visited_pages' = visited
           /\ \E first \in extract_emails(response.text) :
              \E second \in (IF again THEN second_scan(response.url, response.text)
                                      ELSE {<<>>}) :
                 /\ emails' = (emails \cup Range(first)) \cup Range(second)
                 /\ scan' = [url |-> response.url, first |-> first,
                             between |-> emails \cup Range(first),
                             again |-> again, second |-> second]
           /\ yielded' = yielded (+) [u \in Range(links) |->
                                         Cardinality({k \in 1..Len(links) : links[k] = u})]
           /\ queue' = sched.queue
           /\ seen' = sched.seen
    /\ UNCHANGED <<notCrawl, job, returned, phase, fetched>>

\* run_scrapy_for_website, lines 71-74: collect_emails is connected to the
\* spider_closed signal.  The dispatcher calls a receiver with those of the
\* signal's arguments that the receiver's signature names; a receiver left
\* without one of its required parameters raises TypeError, which Scrapy
\* logs, and its body does not run.
collect_emails_params == {"sender", "item", "response", "spider"}

spider_closed_args == {"signal", "sender", "spider", "reason"}

collect_emails(own, spider_emails) ==
    IF collect_emails_params \subseteq spider_closed_args
    THEN own \cup spider_emails
    ELSE own

\* The spider closed as soon as nothing is pending.
spider_closed_while_downloading ==
    /\ prog = "crawl"
    /\ phase = "running"
    /\ queue = EmptyBag
    /\ phase' = "closed"
    /\ returned' = collect_emails(returned, emails)
    /\ UNCHANGED <<notCrawl, job, emails, visited_pages, queue, seen, inflight,
                   fetched, yielded, scan>>

\* The engine is idle: nothing is pending and nothing is in flight.  The
\* spider is closed, its spider_closed signal is sent, and process.start()
\* returns.
spider_closed ==
    /\ prog = "crawl"
    /\ phase = "running"
    /\ queue = EmptyBag
    /\ inflight = EmptyBag
    /\ phase' = "closed"
    /\ returned' = collect_emails(returned, emails)
    /\ UNCHANGED <<notCrawl, job, emails, visited_pages, queue, seen, inflight,
                   fetched, yielded, scan>>

Requests == BagToSet(queue) \cup BagToSet(inflight)

NextCrawl ==
    \/ start_requests
    \/ spider_closed
    \/ \E r \in Requests : download_error(r)
    \/ \E r \in Requests : retry(r)
    \/ \E r \in Requests : redirected(r)
    \/ \E r \in Requests : parse(r)
    \/ \E r \in Requests : download(r)

SpecCrawl == InitCrawl /\ [][NextCrawl]_vars

\* The crawl with the engine at work: the reactor runs whatever is ready,
\* and every download ends, in a response, a redirect or a failure (the
\* downloader's timeout at the latest).
SpecCrawlFair == SpecCrawl /\ WF_vars(NextCrawl)

(***************************************************************************)
(* email_scraper.py: scrape_multiple_websites, scrape_with_hybrid,         *)
(* scrape_with_selenium, run_scrapy_for_website.                           *)
(***************************************************************************)
\* The most URLs a batch is given.
MaxUrls == 2

\* The seconds scrape_with_selenium sleeps after driver.get.
SettleSeconds == 3

\* The page a browser or a download gets for url.
Web(url) == IF DiamondSite(url) # NoPage THEN DiamondSite(url) ELSE ScopeSite(url)

\* The URLs the email batch is run on.
BatchSeeds == {"http://s.io/", "http://s.io/contact", "http://m.s.io/"}

\* The lists of 1 to n elements of S.
ListsUpTo(S, n) == UNION {[1..k -> S] : k \in 1..n}

InitBatch ==
    /\ prog = "batch"
    /\ urls \in ListsUpTo(BatchSeeds, MaxUrls)
    /\ pc = "loop"
    /\ use_selenium \in BOOLEAN
    /\ results = <<>>
    /\ driver = "none"
    /\ fetch = NoFetch
    /\ now = 0
    /\ start_time = 0
    /\ reactor = "fresh"
    /\ outcomes = <<>>
    /\ IdleCrawl /\ IdleLinks

\* The loop of scrape_multiple_websites left at its first URL.
url_of_first_job == urls[1]

\* The URL the loop of scrape_multiple_websites is at.
url_at_hand == urls[Len(results) + 1]

\* Lines 120-124 with the time left out
ok_row_without_time(url, found, elapsed_time) ==
    [Website |-> url,
     Emails |-> Join(", ", found),
     Time |-> [number |-> FALSE, seconds |-> 0]]

\* Lines 120-124: the row of a job that returned emails
ok_row(url, found, elapsed_time) ==
    [Website |-> url,
     Emails |-> Join(", ", found),
     Time |-> [number |-> TRUE, seconds |-> elapsed_time]]

\* Lines 126-132 taking the exception for a job that found nothing
error_row_as_empty(url) ==
    [Website |-> url,
     Emails |-> "",
     Time |-> [number |-> TRUE, seconds |-> 0]]

\* Lines 128-132: the row of a job that raised
error_row(url) ==
    [Website |-> url,
     Emails |-> "Error scraping website",
     Time |-> [number |-> FALSE, seconds |-> 0]]

\* Line 116: the loop takes the next URL and calls scrape_with_hybrid
begin_url ==
    /\ prog = "batch"
    /\ pc = "loop"
    /\ Len(results) < Len(urls)
    /\ start_time' = now
    /\ pc' = IF use_selenium THEN "Chrome" ELSE "scrapy"
    /\ UNCHANGED <<prog, crawlVars, linkVars, urls, use_selenium, results, driver,
                   fetch, now, reactor, outcomes>>

\* Line 133: the loop is over
return_results ==
    /\ prog = "batch"
    /\ pc = "loop"
    /\ Len(results) = Len(urls)
    /\ pc' = "done"
    /\ UNCHANGED <<prog, crawlVars, linkVars, urls, batchVars>>

\* Line 86: webdriver.Chrome(...) starts the engine
chrome_starts ==
    /\ prog = "batch"
    /\ pc = "Chrome"
    /\ driver' = "live"
    /\ fetch' = NoFetch
    /\ pc' = "get"
    /\ UNCHANGED <<prog, crawlVars, linkVars, urls, use_selenium, results, now,
                   start_time, reactor, outcomes>>

\* Line 86 raises: the engine cannot be started.  The call is outside the
\* try statement, so the exception leaves scrape_with_selenium and
\* scrape_with_hybrid and is caught at line 126.
chrome_raises ==
    /\ prog = "batch"
    /\ pc = "Chrome"
    /\ results' = Append(results, error_row(url_at_hand))
    /\ outcomes' = Append(outcomes, "launch raised")
    /\ pc' = "loop"
    /\ UNCHANGED <<prog, crawlVars, linkVars, urls, use_selenium, driver, fetch, now,
                   start_time, reactor>>

\* Lines 89-93: the page is loaded and its emails are what the try returns
get_returns ==
    /\ prog = "batch"
    /\ pc = "get"
    /\ now' = now + SettleSeconds
    /\ \E found \in extract_emails(Web(url_at_hand).text) :
          fetch' = [emails |-> found, caught |-> FALSE]
    /\ pc' = "finally"
    /\ UNCHANGED <<prog, crawlVars, linkVars, urls, use_selenium, results, driver,
                   start_time, reactor, outcomes>>

\* Lines 97-98: the engine after the finally clause
quit_unless_caught(d, caught) == IF caught THEN d ELSE "none"

quit(d, caught) == "none"

\* Lines 94-96: what the except clause makes of an exception of the try:
\* it logs the error and returns the empty list
on_exception_reraise == [raised |-> TRUE, emails |-> <<>>]

on_exception == [raised |-> FALSE, emails |-> <<>>]

\* Line 89 raises (the navigation fails or times out) and the except clause
\* handles it.  An exception it let through would run the finally clause
\* and be caught at line 126.
get_raises ==
    /\ prog = "batch"
    /\ pc = "get"
    /\ IF on_exception.raised
       THEN /\ driver' = quit(driver, TRUE)
            /\ results' = Append(results, error_row(url_at_hand))
            /\ outcomes' = Append(outcomes, "get raised")
            /\ pc' = "loop"
            /\ UNCHANGED fetch
       ELSE /\ fetch' = [emails |-> on_exception.emails, caught |-> TRUE]
            /\ pc' = "finally"
            /\ UNCHANGED <<driver, results, outcomes>>
    /\ UNCHANGED <<prog, crawlVars, linkVars, urls, use_selenium, now, start_time,
                   reactor>>

\* The finally clause runs, scrape_with_selenium returns and
\* scrape_multiple_websites appends the row (lines 119-125)
selenium_returns ==
    /\ prog = "batch"
    /\ pc = "finally"
    /\ driver' = quit(driver, fetch.caught)
    /\ results' = Append(results, ok_row(url_at_hand, fetch.emails, now - start_time))
    /\ outcomes' = Append(outcomes, IF fetch.caught THEN "get raised" ELSE "ok")
    /\ fetch' = NoFetch
    /\ pc' = "loop"
    /\ UNCHANGED <<prog, crawlVars, linkVars, urls, use_selenium, now, start_time,
                   reactor>>

\* What spider.emails can hold when the crawl of url ends: here the emails
\* of the seed page, or nothing when its download failed; SpecCrawl is the
\* crawl in full.
crawled_emails(url) == {{}} \cup {Range(l) : l \in extract_emails(Web(url).text)}

\* Lines 67-78 with the process's reactor not yet run: the crawl runs and
\* run_scrapy_for_website returns its own emails, a set
scrapy_returns ==
    /\ prog = "batch"
    /\ pc = "scrapy"
    /\ reactor = "fresh"
    /\ reactor' = "stopped"
    /\ \E spider_emails \in crawled_emails(url_at_hand) :
       \E found \in ListsOf(collect_emails({}, spider_emails)) :
          results' = Append(results, ok_row(url_at_hand, found, now - start_time))
    /\ outcomes' = Append(outcomes, "ok")
    /\ pc' = "loop"
    /\ UNCHANGED <<prog, crawlVars, linkVars, urls, use_selenium, driver, fetch, now,
                   start_time>>

\* Line 77 in a process whose reactor has run and stopped: process.start()
\* raises ReactorNotRestartable, caught at line 126
scrapy_raises ==
    /\ prog = "batch"
    /\ pc = "scrapy"
    /\ reactor = "stopped"
    /\ results' = Append(results, error_row(url_at_hand))
    /\ outcomes' = Append(outcomes, "start raised")
    /\ pc' = "loop"
    /\ UNCHANGED <<prog, crawlVars, linkVars, urls, use_selenium, driver, fetch, now,
                   start_time, reactor>>

NextBatch ==
    \/ begin_url
    \/ return_results
    \/ chrome_starts
    \/ chrome_raises
    \/ get_returns
    \/ get_raises
    \/ selenium_returns
    \/ scrapy_returns
    \/ scrapy_raises

SpecBatch == InitBatch /\ [][NextBatch]_vars

(***************************************************************************)
(* linkdin.py: extract_links_from_page.                                    *)
(***************************************************************************)
EXCLUDED_WEBSITES ==
    <<"facebook.com", "instagram.com", "twitter.com", "youtube.com", "linkedin.com",
      "forbes.com", "amazon.com", "pinterest.com", "imdb.com", "indeed.com", "moz.com",
      "quora.com", "semrush.com", "google.com", "google.org", "bbc.co.uk", ".gov">>

EXCLUDED_PATTERNS == <<"#", "/contact", "/privacy", "/terms">>

\* Lines 46 and 51: netloc.replace('www.', '')
domain_of(url) == Replace(Netloc(url), "www.", "")

\* Lines 54-59, without the test of the excluded patterns
is_outgoing_any_pattern(url, link) ==
    LET full_url == urljoin(url, link)
        domain == domain_of(full_url)
    IN  /\ domain # ""
        /\ ~In(domain_of(url), domain)
        /\ ~\E k \in 1..Len(EXCLUDED_WEBSITES) : In(EXCLUDED_WEBSITES[k], domain)

\* Lines 49-59: whether the anchor target link of the page url is recorded
is_outgoing(url, link) ==
    LET full_url == urljoin(url, link)
        domain == domain_of(full_url)
    IN  /\ domain # ""
        /\ ~In(domain_of(url), domain)
        /\ ~\E k \in 1..Len(EXCLUDED_WEBSITES) : In(EXCLUDED_WEBSITES[k], domain)
        /\ ~\E k \in 1..Len(EXCLUDED_PATTERNS) : In(EXCLUDED_PATTERNS[k], full_url)

\* Line 60: what is recorded for an accepted link
recorded(url, link) == "https://" \o domain_of(urljoin(url, link)) \o "/"

\* Lines 48-60: outgoing_links after the loop over anchor_tags
outgoing_links_of(url, anchor_tags) ==
    {recorded(url, anchor_tags[k]) :
        k \in {j \in 1..Len(anchor_tags) : is_outgoing(url, anchor_tags[j])}}

(***************************************************************************)
(* The pages the link batch is run on, each as the list                    *)
(* selector.css('a::attr(href)') yields for it.                            *)
(***************************************************************************)
LinkWeb(url) ==
    CASE url = "https://www.example.com/" ->
            <<"/about", "https://twitter.com/example", "https://partner.org/page#top">>
      [] url = "https://shop.io/" ->
            <<"https://partner.org/page", "https://www.partner.org/", "/contact",
              "https://blog.shop.io/x", "https://ok.net/terms", "https://ok.net/a",
              "https://m.facebook.com/p", "https://data.gov/x", "#top", "p.html",
              "mailto:a@b.io", "https://myshop.io.evil.org/", "//cdn.net/lib.js">>
      [] url = "https://partner.org/" ->
            <<"https://www.shop.io/a", "https://partner.org/x", "https://shop.io/privacy">>
      [] OTHER -> <<>>

LinkSeeds == {"https://www.example.com/", "https://shop.io/", "https://partner.org/"}

(***************************************************************************)
(* linkdin.py: main, process_urls_concurrently.                            *)
(***************************************************************************)
max_workers == 5

\* The link batch starts in main, which hands its list on at line 171, or
\* with a call of process_urls_concurrently(urls) itself.
InitLinks ==
    /\ prog = "links"
    /\ entered \in ListsUpTo(LinkSeeds, MaxUrls)
    /\ urls = entered
    /\ pc \in {"main", "submit"}
    /\ tasks = <<>>
    /\ future = 0
    /\ all_outgoing_links = <<>>
    /\ IdleCrawl /\ IdleBatch

\* main, line 160: urls = list(set(urls)); a set is listed in any order
handle_duplicates ==
    /\ prog = "links"
    /\ pc = "main"
    /\ urls' \in ListsOf(Range(urls))
    /\ pc' = "submit"
    /\ UNCHANGED <<prog, crawlVars, batchVars, entered, tasks, future, all_outgoing_links>>

\* Lines 71-73: the pool is made and given one task for each URL
submit ==
    /\ prog = "links"
    /\ pc = "submit"
    /\ tasks' = [i \in 1..Len(urls) |->
                    [url |-> urls[i], at |-> "pending", driver |-> "none",
                     outgoing_links |-> {}, result |-> <<>>, how |-> ""]]
    /\ future' = 1
    /\ pc' = "collect"
    /\ UNCHANGED <<prog, crawlVars, batchVars, urls, entered, all_outgoing_links>>

\* The tasks a worker thread of the pool is running.
running == {i \in 1..Len(tasks) : tasks[i].at \notin {"pending", "done"}}

\* A worker thread takes the next task of the pool's queue
task_starts(i) ==
    /\ prog = "links"
    /\ tasks[i].at = "pending"
    /\ \A j \in 1..(i - 1) : tasks[j].at # "pending"
    /\ Cardinality(running) < max_workers
    /\ tasks' = [tasks EXCEPT ![i].at = "init_driver"]
    /\ UNCHANGED <<prog, crawlVars, batchVars, mainVars, entered, future, all_outgoing_links>>

\* Line 37: init_driver() returns an engine
init_driver_returns(i) ==
    /\ prog = "links"
    /\ tasks[i].at = "init_driver"
    /\ tasks' = [tasks EXCEPT ![i].at = "get", ![i].driver = "live"]
    /\ UNCHANGED <<prog, crawlVars, batchVars, mainVars, entered, future, all_outgoing_links>>

\* Line 37 raises inside the try statement: the except clause warns, the
\* finally clause finds driver None, and line 67 returns the empty list
init_driver_raises(i) ==
    /\ prog = "links"
    /\ tasks[i].at = "init_driver"
    /\ tasks' = [tasks EXCEPT ![i].at = "done", ![i].result = <<>>,
                              ![i].how = "launch raised"]
    /\ UNCHANGED <<prog, crawlVars, batchVars, mainVars, entered, future, all_outgoing_links>>

\* Lines 38-60: the page is loaded and its anchors are gone through
page_loads(i) ==
    /\ prog = "links"
    /\ tasks[i].at = "get"
    /\ tasks' = [tasks EXCEPT
                    ![i].at = "finally",
                    ![i].outgoing_links = outgoing_links_of(tasks[i].url, LinkWeb(tasks[i].url)),
                    ![i].how = "ok"]
    /\ UNCHANGED <<prog, crawlVars, batchVars, mainVars, entered, future, all_outgoing_links>>

\* Line 38 raises (the navigation fails or times out): the except clause
\* warns
navigation_raises(i) ==
    /\ prog = "links"
    /\ tasks[i].at = "get"
    /\ tasks' = [tasks EXCEPT ![i].at = "finally", ![i].how = "get raised"]
    /\ UNCHANGED <<prog, crawlVars, batchVars, mainVars, entered, future, all_outgoing_links>>

\* Lines 63-65: the engine after the finally clause
quit_if_driver(d) == "none"

\* Lines 63-67: the finally clause runs and the list of the set is returned
task_returns(i) ==
    /\ prog = "links"
    /\ tasks[i].at = "finally"
    /\ \E result \in ListsOf(tasks[i].outgoing_links) :
          tasks' = [tasks EXCEPT ![i].at = "done", ![i].result = result,
                                 ![i].driver = quit_if_driver(tasks[i].driver)]
    /\ UNCHANGED <<prog, crawlVars, batchVars, mainVars, entered, future, all_outgoing_links>>

\* A list of items that takes every assignment as a new item.
dict_append(d, key, value) == Append(d, [url |-> key, links |-> value])

\* d[key] = value of a dict: a new key goes last, a key it has keeps its place
dict_set(d, key, value) ==
    IF \E k \in 1..Len(d) : d[k].url = key
    THEN [k \in 1..Len(d) |-> IF d[k].url = key THEN [url |-> key, links |-> value] ELSE d[k]]
    ELSE Append(d, [url |-> key, links |-> value])

\* Lines 74-77: the loop waits for the result of the next future
collect ==
    /\ prog = "links"
    /\ pc = "collect"
    /\ future <= Len(tasks)
    /\ tasks[future].at = "done"
    /\ all_outgoing_links' = dict_set(all_outgoing_links, tasks[future].url, tasks[future].result)
    /\ future' = future + 1
    /\ UNCHANGED <<prog, crawlVars, batchVars, mainVars, entered, tasks>>

\* Line 80: the pool is shut down and the dict is returned
return_links ==
    /\ prog = "links"
    /\ pc = "collect"
    /\ future > Len(tasks)
    /\ pc' = "done"
    /\ UNCHANGED <<prog, crawlVars, batchVars, linkVars, urls>>

NextLinks ==
    \/ handle_duplicates
    \/ submit
    \/ \E i \in 1..Len(tasks) : task_starts(i)
    \/ \E i \in 1..Len(tasks) : init_driver_returns(i)
    \/ \E i \in 1..Len(tasks) : init_driver_raises(i)
    \/ \E i \in 1..Len(tasks) : page_loads(i)
    \/ \E i \in 1..Len(tasks) : navigation_raises(i)
    \/ \E i \in 1..Len(tasks) : task_returns(i)
    \/ collect
    \/ return_links

SpecLinks == InitLinks /\ [][NextLinks]_vars

(***************************************************************************)
(* The two batches, for what is said of both.                              *)
(***************************************************************************)
InitBatches == InitBatch \/ InitLinks

NextBatches == NextBatch \/ NextLinks

SpecBatches == InitBatches /\ [][NextBatches]_vars

(***************************************************************************)
(* The crawl of one site: what is said of the spider and the scheduler.    *)
(***************************************************************************)

\* C1: within one crawl no URL is downloaded more than once.
C1_NoUrlFetchedTwice ==
    \A r \in BagToSet(fetched) : fetch_count(r.url) <= 1

\* C2: the seed is downloaded at depth 0 (and so is what it is redirected
\* to) and a followed link at the depth of the page that yielded it plus
\* one; no URL is downloaded at a depth above DEPTH_LIMIT, whatever the
\* order in which the links were found.  A retry has the depth of the
\* request it repeats.
C2_NoFetchBeyondDepthLimit ==
    /\ \A r \in BagToSet(fetched) : r.depth \in 0..DEPTH_LIMIT
    /\ \A r \in BagToSet(fetched) : r.retry_times = 0 => (r.depth = 0 <=> r.dont_filter)
    /\ \A r \in Requests : r.depth \in 0..DEPTH_LIMIT

\* The crawl is over, a page was downloaded at depth DEPTH_LIMIT, and the
\* link it yielded a Request for was never downloaded.
C2_DroppedAtDepthLimit ==
    /\ phase = "closed"
    /\ \E r \in BagToSet(fetched) : r.depth = DEPTH_LIMIT
    /\ BagIn("http://s.io/g", yielded)
    /\ fetch_count("http://s.io/g") = 0
    /\ yielded["http://s.io/e"] >= 2
    /\ fetch_count("http://s.io/e") = 1

\* C3: every URL parse yields a Request for has a domain equal to the domain
\* of the seed; a link of another domain is never followed, even when the
\* seed's domain occurs in its path or query or as part of a longer host.
C3_FollowedLinksAreOfSeedDomain ==
    \A link \in BagToSet(yielded) : Netloc(link) = allowed_domains[1]

\* C9: scanning a page's content yields no email twice, and the second scan
\* of the same content (a page whose URL has a keyword) yields the same set
\* of emails and leaves the emails of the crawl as the first scan left them.
C9_SecondScanAddsNothing ==
    /\ NoRepeat(scan.first)
    /\ NoRepeat(scan.second)
    /\ scan.again => /\ Range(scan.second) = Range(scan.first)
                     /\ emails = scan.between

\* A page with a keyword in its URL was scanned twice, its content holds an
\* email more than once, and the two scans listed the emails differently.
C9_ScannedTwice ==
    /\ scan.again
    /\ Len(scan.first) >= 2
    /\ scan.second # scan.first
    /\ Len(re_findall(Page(site, scan.url).text, 1)) > Len(scan.first)

C14_FailedFetchIsNotRetried ==
    /\ \A r \in BagToSet(fetched) : r.retry_times = 0
    /\ \A r \in Requests : r.retry_times = 0

(***************************************************************************)
(* The batches: what is said of the rows, the entries and the engines.     *)
(***************************************************************************)

\* The elements of q, each once, in the order of their first occurrence.
RECURSIVE FirstOccurrences(_)
FirstOccurrences(q) ==
    IF q = <<>>
    THEN <<>>
    ELSE LET front == FirstOccurrences(SubSeq(q, 1, Len(q) - 1))
         IN  IF q[Len(q)] \in Range(front) THEN front ELSE Append(front, q[Len(q)])

\* A row with the error text for emails and "N/A" for the time.
IsErrorRow(row) == row.Emails = "Error scraping website" /\ ~row.Time.number

\* A row with a number for the time and emails, or none, for emails.
IsOkRow(row) == row.Emails # "Error scraping website" /\ row.Time.number

\* C4: the result of a batch has one row or entry for each URL supplied, in
\* the order the URLs were supplied, in the sequential email batch and in
\* the thread-pool link batch as main drives it.
C4_ResultsInInputOrder ==
    pc = "done" =>
        /\ prog = "batch" => [k \in 1..Len(results) |-> results[k].Website] = urls
        /\ prog = "links" =>
              [k \in 1..Len(all_outgoing_links) |-> all_outgoing_links[k].url]
                  = FirstOccurrences(entered)

C7_EngineReleased ==
    /\ driver = "live" => pc \in {"get", "finally"}
    /\ \A i \in 1..Len(tasks) : tasks[i].driver = "live" => tasks[i].at \in {"get", "finally"}
    /\ pc = "done" =>
          /\ driver = "none"
          /\ \A i \in 1..Len(tasks) : tasks[i].driver = "none"

\* The email batch is over; the navigation raised in one fetch that had
\* started an engine, and another fetch loaded its page.
C7_ReleasedAfterFailure ==
    /\ prog = "batch"
    /\ pc = "done"
    /\ \E k \in 1..Len(results) : outcomes[k] = "get raised"
    /\ \E k \in 1..Len(results) : outcomes[k] = "ok"
    /\ use_selenium

\* An entry of EXCLUDED_WEBSITES names the domain: the domain is the entry
\* or a subdomain of it, or ends with an entry that begins with a dot.
matches_excluded(domain, entry) ==
    IF StartsWith(entry, ".")
    THEN EndsWith(domain, entry)
    ELSE domain = entry \/ EndsWith(domain, "." \o entry)

\* What an anchor of the page of url may be recorded as: the anchor is an
\* absolute URL after the join, of another domain than the page, of no
\* excluded website, with no excluded pattern, and is recorded as
\* https://{domain}/.
recorded_rightly(url) ==
    LET full_url(k) == urljoin(url, LinkWeb(url)[k])
        domain(k) == Replace(Netloc(full_url(k)), "www.", "")
        right == {k \in 1..Len(LinkWeb(url)) :
                    /\ Scheme(full_url(k)) # ""
                    /\ domain(k) # ""
                    /\ domain(k) # Replace(Netloc(url), "www.", "")
                    /\ \A e \in 1..Len(EXCLUDED_WEBSITES) :
                          ~matches_excluded(domain(k), EXCLUDED_WEBSITES[e])
                    /\ \A e \in {"#", "/contact", "/privacy", "/terms"} :
                          ~In(e, full_url(k))}
    IN  {"https://" \o domain(k) \o "/" : k \in right}

\* recorded_rightly, for each of the pages.
RecordedRightly == [url \in LinkSeeds |-> recorded_rightly(url)]

\* C8: every link extract_links_from_page returns for a page is of a domain
\* other than the page's, of no excluded website, from an absolute URL with
\* no excluded pattern, recorded as https://{domain}/, once; the page that
\* links to an in-domain path, an excluded website and an external URL with
\* '#' has the empty result.
C8_OutgoingLinksAreFiltered ==
    \A i \in 1..Len(tasks) :
        tasks[i].at = "done" =>
            /\ NoRepeat(tasks[i].result)
            /\ \A k \in 1..Len(tasks[i].result) :
                  tasks[i].result[k] \in RecordedRightly[tasks[i].url]
            /\ tasks[i].url = "https://www.example.com/" => tasks[i].result = <<>>

\* The page with several anchors of one outgoing domain was loaded and has
\* two links, and the page of the scenario was loaded and has none.
C8_PagesLoaded ==
    /\ \E i \in 1..Len(tasks) :
          /\ tasks[i].at = "done"
          /\ tasks[i].url = "https://shop.io/"
          /\ Len(tasks[i].result) >= 2
    /\ \E i \in 1..Len(tasks) :
          /\ tasks[i].at = "done"
          /\ tasks[i].url = "https://www.example.com/"
          /\ tasks[i].how = "ok"
          /\ tasks[i].result = <<>>

(***************************************************************************)
(* The engines and the fetches in flight.                                  *)
(***************************************************************************)

\* The rendering engines that are live: the one of scrape_with_selenium and
\* those of the pool's tasks.
live_engines ==
    (IF driver = "live" THEN 1 ELSE 0)
        + Cardinality({i \in 1..Len(tasks) : tasks[i].driver = "live"})

\* C11: across the jobs of a batch at most one rendering engine is live at
\* any time.
C11_OneEngineAtATime == live_engines <= 1

\* C12: at every moment of a job at most five fetches are in flight,
\* whatever the number of URLs that wait in the scheduler or in the pool.
C12_AtMostFiveInFlight ==
    /\ BagCardinality(inflight) <= 5
    /\ Cardinality(running) <= 5

(***************************************************************************)
(* The end of a crawl.                                                     *)
(***************************************************************************)

\* C13: a crawl is closed in the end, cycles of links or not; it is closed
\* only with nothing pending and nothing in flight, and once nothing is
\* pending and nothing is in flight it is closed.
C13_CrawlEnds ==
    /\ <>(phase = "closed")
    /\ [](phase = "closed" => queue = EmptyBag /\ inflight = EmptyBag)
    /\ (phase = "running" /\ queue = EmptyBag /\ inflight = EmptyBag) ~> (phase = "closed")

\* The crawl of the site whose pages /a and /c link to each other is
\* closed, both pages downloaded and parsed.
C13_ClosedAfterCycle ==
    /\ phase = "closed"
    /\ site = "diamond"
    /\ {"http://s.io/a", "http://s.io/c"} \subseteq visited_pages
    /\ fetch_count("http://s.io/a") = 1
    /\ fetch_count("http://s.io/c") = 1

(***************************************************************************)
(* What a job returns.                                                     *)
(***************************************************************************)

\* The links of the page at url that a crawl started with domains follows.
followed_links(url, domains) ==
    {link \in Range(parse_requests(url, Web(url).hrefs, domains, {})) :
        offsite_allows(link, domains)}

RECURSIVE pages_within(_, _, _)
\* The pages at most depth links away from a page of the set pages.
pages_within(pages, domains, depth) ==
    IF depth = 0 THEN pages
    ELSE pages_within(pages \cup UNION {followed_links(url, domains) : url \in pages},
                      domains, depth - 1)

\* The emails in the content of every page of the job of a seed: the seed
\* page and the pages of its domain within DEPTH_LIMIT links of it.
EmailsOfJob ==
    [seed \in BatchSeeds |->
        UNION {Range(re_findall(Web(url).text, 1)) :
                  url \in pages_within({seed}, <<domain_of_start_url(seed)>>, DEPTH_LIMIT)}]

\* C15: with either backend, the emails in the row of a seed whose job ran
\* without a failure are the emails of every page of the job, each once.
C15_RowHoldsEmailsOfEveryPage ==
    \A i \in 1..Len(results) :
        outcomes[i] = "ok" =>
            /\ Range(re_findall(results[i].Emails, 1)) = EmailsOfJob[urls[i]]
            /\ NoRepeat(re_findall(results[i].Emails, 1))

last_task(url) ==
    tasks[CHOOSE i \in 1..Len(tasks) :
             /\ tasks[i].url = url
             /\ \A j \in (i + 1)..Len(tasks) : tasks[j].url # url]

hybrid_raised(k) == outcomes[k] \in {"launch raised", "start raised"}

\* A row of one of the two shapes: a number for the time and the emails it
\* lists joined by ", ", or "N/A" for the time and the error text.
WellFormedRow(row) ==
    \/ /\ row.Time.number
       /\ row.Time.seconds \in Nat
       /\ row.Emails = Join(", ", re_findall(row.Emails, 1))
    \/ /\ ~row.Time.number
       /\ row.Emails = "Error scraping website"

\* C18: every row of the batch has one of the two shapes; it is an error
\* row exactly when scrape_with_hybrid raised for its URL; and a step of
\* the batch, a raise included, leaves the rows it finds as they are.
C18_RowsAreWellFormed ==
    /\ [](\A k \in 1..Len(results) :
             /\ WellFormedRow(results[k])
             /\ results[k].Website = urls[k]
             /\ IsErrorRow(results[k]) <=> hybrid_raised(k)
             /\ IsOkRow(results[k]) <=> ~hybrid_raised(k))
    /\ [][/\ Len(results') >= Len(results)
          /\ \A k \in 1..Len(results) : results'[k] = results[k]]_vars

\* The batch is over: the first job returned emails and has an ok row, the
\* engine of the second did not start and its row is the error row.
C18_OkRowThenErrorRow ==
    /\ prog = "batch" /\ pc = "done"
    /\ outcomes = <<"ok", "launch raised">>
    /\ IsOkRow(results[1]) /\ Len(re_findall(results[1].Emails, 1)) = 2
    /\ results[2] = error_row(urls[2])

====
